---- MODULE Spec2Model ----
(***************************************************************************)
(* A model of the DNS message decoder of src/src/dns.c: the packet driver  *)
(* dns_print_packet, the resource-record parsers and the two name decoders *)
(* dns_header_parse_name / dns_header_parse_mxname, one step per loop      *)
(* iteration.  Offsets are byte offsets from the start of the message      *)
(* (the pointer `hdr`); bytes are integers 0..255.                         *)
(***************************************************************************)
EXTENDS Integers, Sequences, FiniteSets, TLC

VARIABLES
    mem,          \* the bytes of the buffer holding the message, from offset 0
    pkt_len,      \* the length handed to dns_print_packet
    pad,          \* what a read past the bytes of mem finds (not chosen by the program)
    char_signed,  \* whether plain char is signed in this build
    pc,           \* position of the program
    r,            \* dns_print_packet: the cursor, as an offset
    len,          \* dns_print_packet: the remaining length
    rdlength,     \* dns_print_packet: rdlength (handed to dns_rdata_print as its *len)
    rr,           \* offset of the dns_rr struct of the current record
    qdcount,      \* questions left
    count,        \* records left in the current section
    section,      \* 1 answer, 2 authority, 3 additional
    comma,        \* dns_print_packet: comma
    err,          \* the last value returned by a parser
    out,          \* the fragments appended to buf, in order
    name,         \* dns_print_packet: char name[DNS_OUTNAME_LEN], cells written so far
    rdname,       \* dns_rdata_print: char name[DNS_OUTNAME_LEN], cells written so far
    f,            \* the running activation of a name decoder
    rdmax         \* the highest offset of the message read so far (-1: none)

vars == <<mem, pkt_len, pad, char_signed, pc, r, len, rdlength, rr, qdcount, count,
          section, comma, err, out, name, rdname, f, rdmax>>

input == <<mem, pkt_len, pad, char_signed>>

(***************************************************************************)
(* Program constants.                                                      *)
(***************************************************************************)
DNS_OUTNAME_LEN == 256

DNS_MAX_RECURSION_DEPTH == 20

SizeofDnsHdr == 12

SizeofDnsQuestion == 4

SizeofDnsRr == 10

SizeofInAddr == 4

SizeofIn6Addr == 16

SizeofUint16 == 2

type_A == 1

type_NS == 2

type_CNAME == 5

type_SOA == 6

type_PTR == 12

type_MX == 15

type_TXT == 16

type_AAAA == 28

class_IN == 1

(***************************************************************************)
(* Arithmetic helpers.                                                     *)
(***************************************************************************)
Max(a, b) == IF a >= b THEN a ELSE b

Rep(b, n) == [i \in 1..n |-> b]

\* a < b between two values converted to unsigned int.  An unsigned int is kept as
\* the integer it is congruent to modulo 2^32 in -2^31..2^31-1: a negative x stands
\* for the wrapped value 2^32 + x
ULess(a, b) == IF (a < 0) = (b < 0) THEN a < b ELSE b < 0

\* one byte of the buffer; a read past its bytes finds pad
Byte(o) == IF o >= 0 /\ o < Len(mem) THEN mem[o + 1] ELSE pad

\* ntohs(*(uint16_t*)(hdr + o))
U16At(o) == Byte(o) * 256 + Byte(o + 1)

Bytes(o, n) == [i \in 1..n |-> Byte(o + i - 1)]

\* the value of a byte held in a plain char
SChar(b) == IF char_signed /\ b >= 128 THEN b - 256 ELSE b

\* a label test that looks at the top bit only
char_is_label_TopBit(b) == b \div 128 = 0

char_is_label(b) == b \div 64 = 0

char_is_offset(b) == b \div 64 = 3

\* a copy that keeps every byte as it is
printable_Raw(b) == b

\* isprint in the C locale; '*' is 42
printable(b) == IF b >= 32 /\ b <= 126 THEN b ELSE 42

\* one fragment of the output text
Tok(k, v) == [k |-> k, v |-> v]

\* stores of the values vs into a name buffer from cell i on: cells never written
\* before are left as bg
StoreAll(buf, bg, i, vs) ==
    [j \in 1..Max(Len(buf), i + Len(vs)) |->
        IF j > i /\ j <= i + Len(vs) THEN vs[j - i]
        ELSE IF j <= Len(buf) THEN buf[j] ELSE bg]

Store(buf, bg, i, v) == StoreAll(buf, bg, i, <<v>>)

\* the C string that starts at cell i (as printf's %s reads it): the cells up to the
\* first 0; past the cells written it finds bg
CStr(buf, bg, i) ==
    LET zs == {j \in i..(Len(buf) - 1) : buf[j + 1] = 0}
    IN  IF zs = {}
        THEN SubSeq(buf, i + 1, Len(buf)) \o (IF bg = 0 THEN <<>> ELSE <<bg>>)
        ELSE SubSeq(buf, i + 1, CHOOSE j \in zs : \A k \in zs : j <= k)

(***************************************************************************)
(* The name decoders.  f is the running activation: f.nm and f.ln are its  *)
(* *name and *len; in the outermost activation (f.depth = 0) these are the *)
(* caller's r and len (or rdlength), and f.nm, f.ln keep the values at the *)
(* call.  f.c, f.outname (an index into the name buffer), f.outname_len,   *)
(* f.terminus, f.offsetlen and f.pp (processed_preference) are its locals. *)
(* f.start and f.startlen keep *name and *len of the outermost call.       *)
(***************************************************************************)
NoFrame ==
    [mx |-> FALSE, tgt |-> "len", buf |-> "name", ret |-> "done", nm |-> 0, ln |-> 0,
     c |-> 0, outname |-> 0, outname_len |-> 0, terminus |-> 0, depth |-> 0,
     pp |-> FALSE, offsetlen |-> 0, start |-> 0, startlen |-> 0]

CurName == IF f.depth = 0 THEN r ELSE f.nm

CurLen == IF f.depth = 0 THEN (IF f.tgt = "len" THEN len ELSE rdlength) ELSE f.ln

BufOf(fr) == IF fr.buf = "name" THEN name ELSE rdname

\* dns_print_packet clears its name[] with memset; dns_rdata_print's is not initialised
BgOf(fr) == IF fr.buf = "name" THEN 0 ELSE pad

SetBuf(fr, v) ==
    IF fr.buf = "name" THEN name' = v /\ UNCHANGED rdname
    ELSE rdname' = v /\ UNCHANGED name

\* assignments through the pointers name and len of the activation fr
SetCur(fr, n, l) ==
    IF fr.depth = 0
    THEN /\ r' = n
         /\ IF fr.tgt = "len" THEN len' = l /\ UNCHANGED rdlength
            ELSE rdlength' = l /\ UNCHANGED len
    ELSE UNCHANGED <<r, len, rdlength>>

CurSet(fr, n, l) == IF fr.depth = 0 THEN fr ELSE [fr EXCEPT !.nm = n, !.ln = l]

\* a depth check that lets one more offset through
DepthReached_OffByOne(d) == d > DNS_MAX_RECURSION_DEPTH

\* a depth check that stops one offset early
DepthReached_OneEarly(d) == d >= DNS_MAX_RECURSION_DEPTH - 1

DepthReached(d) == d >= DNS_MAX_RECURSION_DEPTH

\* the call of a name decoder up to its loop: the locals and the robustness check
Enter(fr, cells) ==
    LET g == [fr EXCEPT !.c = fr.nm,
                        !.terminus = IF fr.outname_len >= 0 THEN fr.outname + fr.outname_len
                                     ELSE 2147483647,
                        !.offsetlen = fr.nm + fr.ln, !.pp = FALSE]
    IN  /\ f' = g
        /\ IF fr.ln <= 0 \/ fr.outname > g.terminus \/ ULess(fr.outname_len, 2)
           THEN /\ pc' = fr.ret
                /\ err' = "unterminated"
                /\ UNCHANGED <<name, rdname>>
           ELSE /\ pc' = IF fr.mx THEN "mxname" ELSE "name"
                /\ UNCHANGED err
                /\ SetBuf(fr, Store(cells, BgOf(fr), fr.outname + 1, 0))

\* the label branch from `if (*c < 64 && *len > *c)` on: c2 and l are c and *len there
CopyLabel(n, l, c2) ==
    LET b == Byte(c2)
        jump == (SChar(b) + 1) % 256
        chars == IF jump <= 1 THEN <<46>>
                 ELSE <<46>> \o [i \in 1..(jump - 1) |-> printable(Byte(c2 + i))]
    IN  IF SChar(b) < 64 /\ l > SChar(b)
        THEN IF b = 0
             THEN /\ SetCur(f, c2 + 1, l)
                  /\ f' = CurSet([f EXCEPT !.c = c2, !.pp = f.mx], c2 + 1, l)
                  /\ SetBuf(f, Store(BufOf(f), BgOf(f), f.outname, 0))
                  /\ pc' = f.ret
                  /\ err' = "ok"
                  /\ rdmax' = Max(rdmax, c2)
             ELSE /\ SetCur(f, n + jump, l - jump)
                  /\ f' = CurSet([f EXCEPT !.c = c2 + jump, !.pp = f.mx,
                                           !.outname = f.outname + Len(chars),
                                           !.outname_len = f.outname_len - jump],
                                 n + jump, l - jump)
                  /\ SetBuf(f, StoreAll(BufOf(f), BgOf(f), f.outname, chars))
                  /\ UNCHANGED <<pc, err>>
                  /\ rdmax' = Max(rdmax, c2 + Max(jump - 1, 0))
        ELSE /\ SetCur(f, n, l)
             /\ f' = CurSet([f EXCEPT !.c = c2, !.pp = f.mx], n, l)
             /\ pc' = f.ret
             /\ err' = "label_too_long"
             /\ rdmax' = Max(rdmax, c2)
             /\ UNCHANGED <<name, rdname>>

\* the offset branch: uint16_parse, the depth check and the recursive call
FollowOffset(n, l) ==
    IF l < SizeofUint16
    THEN /\ pc' = f.ret
         /\ err' = "offset_too_long"
         /\ rdmax' = Max(rdmax, f.c)
         /\ UNCHANGED <<r, len, rdlength, name, rdname, f>>
    ELSE LET off == U16At(n) % 16384
             g == CurSet([f EXCEPT !.offsetlen = f.offsetlen - off], n + 2, l - 2)
         IN  /\ SetCur(f, n + 2, l - 2)
             /\ rdmax' = Max(rdmax, Max(f.c, n + 1))
             /\ IF DepthReached(f.depth)
                THEN /\ pc' = f.ret
                     /\ err' = "offset_too_long"
                     /\ f' = g
                     /\ UNCHANGED <<name, rdname>>
                ELSE Enter([g EXCEPT !.nm = off, !.ln = g.offsetlen,
                                     !.depth = f.depth + 1], BufOf(f))

Unterminated ==
    /\ pc' = f.ret
    /\ err' = "unterminated"
    /\ UNCHANGED <<r, len, rdlength, name, rdname, f, rdmax>>

LabelMalformed ==
    /\ pc' = f.ret
    /\ err' = "label_malformed"
    /\ rdmax' = Max(rdmax, f.c)
    /\ UNCHANGED <<r, len, rdlength, name, rdname, f>>

\* one iteration of the loop of dns_header_parse_name
dns_header_parse_name ==
    /\ pc = "name"
    /\ IF ~(CurLen > 0 /\ f.outname < f.terminus) THEN Unterminated
       ELSE IF char_is_label(Byte(f.c)) THEN CopyLabel(CurName, CurLen, f.c)
       ELSE IF char_is_offset(Byte(f.c)) THEN FollowOffset(CurName, CurLen)
       ELSE LabelMalformed
    /\ UNCHANGED <<input, rr, qdcount, count, section, comma, out>>

\* one iteration of the loop of dns_header_parse_mxname
dns_header_parse_mxname ==
    /\ pc = "mxname"
    /\ IF ~(CurLen > 0 /\ f.outname < f.terminus) THEN Unterminated
       ELSE IF char_is_label(Byte(f.c))
            THEN IF ~f.pp THEN CopyLabel(CurName, CurLen - 2, f.c + 2)
                 ELSE CopyLabel(CurName, CurLen, f.c)
       ELSE IF char_is_offset(Byte(f.c)) THEN FollowOffset(CurName, CurLen)
       ELSE LabelMalformed
    /\ UNCHANGED <<input, rr, qdcount, count, section, comma, out>>

(***************************************************************************)
(* The record parsers and the driver dns_print_packet.                     *)
(***************************************************************************)
Malformed(l) == Tok("malformed", <<l>>)

\* data_advance: the values of *data and *len after it, and what it returns
data_advance(data, l, size) ==
    IF ULess(l, size)
    THEN [err |-> "malformed", data |-> data, len |-> l]
    ELSE [err |-> "ok", data |-> data + size, len |-> l - size]

\* a call of a name decoder with the whole name buffer, at depth 0
NameCall(mx, tgt, buf, ret, l, cells) ==
    Enter([NoFrame EXCEPT !.mx = mx, !.tgt = tgt, !.buf = buf, !.ret = ret, !.nm = r,
                          !.ln = l, !.start = r, !.startlen = l, !.outname = 0, !.outname_len = DNS_OUTNAME_LEN - 1],
          cells)

\* dns_print_packet up to the question loop
Start ==
    /\ pc = "start"
    /\ IF pkt_len < SizeofDnsHdr
       THEN /\ out' = <<Tok("{", <<>>), Malformed(pkt_len)>>
            /\ pc' = "done"
            /\ UNCHANGED <<r, len, qdcount, err, rdmax>>
       ELSE /\ len' = pkt_len - 12
            /\ r' = 12
            /\ rdmax' = Max(rdmax, 5)
            /\ qdcount' = U16At(4)
            /\ IF U16At(4) > 1
               THEN /\ err' = "too_many"
                    /\ out' = <<Tok("{", <<>>), Malformed(pkt_len - 12)>>
                    /\ pc' = "done"
               ELSE /\ out' = <<Tok("{", <<>>)>>
                    /\ pc' = "question"
                    /\ UNCHANGED err
    /\ name' = <<>>
    /\ UNCHANGED <<input, rdlength, rr, count, section, comma, rdname, f>>

\* the head of the question loop: the call of the name decoder, or the loop's exit
Question ==
    /\ pc = "question"
    /\ IF qdcount > 0
       THEN /\ qdcount' = qdcount - 1
            /\ NameCall(FALSE, "len", "name", "qname", len, name)
            /\ UNCHANGED <<out, count, section, comma, rdmax>>
       ELSE /\ out' = out \o <<Tok("rc", <<U16At(2) % 16>>), Tok("[", <<>>)>>
            /\ count' = U16At(6)
            /\ rdmax' = Max(rdmax, 7)
            /\ section' = 1
            /\ comma' = 0
            /\ name' = <<>>
            /\ pc' = "rrloop"
            /\ UNCHANGED <<qdcount, err, rdname, f>>
    /\ UNCHANGED <<input, r, len, rdlength, rr>>

\* after the question's name: dns_question_parse and the "qn"/"rn" field
dns_question_parse ==
    /\ pc = "qname"
    /\ IF err # "ok"
       THEN /\ out' = Append(out, Malformed(len))
            /\ pc' = "done"
            /\ UNCHANGED <<r, len, err>>
       ELSE IF len < SizeofDnsQuestion
       THEN /\ err' = "malformed"
            /\ out' = Append(out, Malformed(len))
            /\ pc' = "done"
            /\ UNCHANGED <<r, len>>
       ELSE /\ r' = r + SizeofDnsQuestion
            /\ len' = len - SizeofDnsQuestion
            /\ out' = Append(out, Tok(IF U16At(2) \div 32768 = 0 THEN "qn" ELSE "rn",
                                      CStr(name, 0, 1)))
            /\ pc' = "question"
            /\ UNCHANGED err
    /\ UNCHANGED <<input, rdlength, rr, qdcount, count, section, comma, name, rdname, f,
                   rdmax>>

\* the head of a record loop: the next record's name, the next section, or the end
RecordLoop ==
    /\ pc = "rrloop"
    /\ IF count > 0
       THEN /\ count' = count - 1
            /\ out' = out \o (IF comma # 0 THEN <<Tok(",", <<>>)>> ELSE <<>>)
                          \o <<Tok("{", <<>>)>>
            /\ comma' = comma + 1
            /\ NameCall(FALSE, "len", "name", "rrname", len, name)
            /\ UNCHANGED <<r, section, rdmax>>
       ELSE IF section < 3
       THEN /\ section' = section + 1
            /\ count' = U16At(6 + 2 * section)
            /\ rdmax' = Max(rdmax, 7 + 2 * section)
            /\ r' = IF rdlength > 1 THEN r + (rdlength - 1) ELSE r
            /\ name' = <<>>
            /\ UNCHANGED <<pc, out, comma, err, rdname, f>>
       ELSE /\ out' = out \o <<Tok("]", <<>>), Tok("}", <<>>)>>
            /\ pc' = "done"
            /\ UNCHANGED <<r, count, section, comma, err, name, rdname, f, rdmax>>
    /\ UNCHANGED <<input, len, rdlength, rr, qdcount>>

\* after the record's name: dns_rr_parse
dns_rr_parse ==
    /\ pc = "rrname"
    /\ IF err # "ok"
       THEN /\ out' = Append(out, Malformed(len))
            /\ pc' = "done"
            /\ UNCHANGED <<r, len, rdlength, rr, err, rdmax>>
       ELSE IF len < SizeofDnsRr
       THEN /\ err' = "malformed"
            /\ out' = Append(out, Malformed(len))
            /\ pc' = "done"
            /\ UNCHANGED <<r, len, rdlength, rr, rdmax>>
       ELSE IF len < U16At(r + 8)
       THEN /\ err' = "rdata_too_long"
            /\ rr' = r
            /\ rdmax' = Max(rdmax, r + 9)
            /\ out' = Append(out, Malformed(len))
            /\ pc' = "done"
            /\ UNCHANGED <<r, len, rdlength>>
       ELSE /\ rr' = r
            /\ rdmax' = Max(rdmax, r + 9)
            /\ rdlength' = U16At(r + 8)
            /\ r' = r + SizeofDnsRr
            /\ len' = len - SizeofDnsRr
            /\ pc' = "rdata"
            /\ UNCHANGED <<err, out>>
    /\ UNCHANGED <<input, qdcount, count, section, comma, name, rdname, f>>

\* dns_addr_parse and dns_ipv6_addr_parse: size is sizeof(struct in_addr / in6_addr)
addr_parse_err(l, rdl, size) ==
    IF l < size THEN "malformed"
    ELSE IF rdl # size THEN "bad_rdlength"
    ELSE "ok"

NameTypes == {type_SOA, type_PTR, type_CNAME, type_NS, type_MX}

TypeName(t) ==
    IF t = type_SOA THEN "soa"
    ELSE IF t = type_PTR THEN "ptr"
    ELSE IF t = type_NS THEN "ns"
    ELSE IF t = type_MX THEN "mx"
    ELSE "cname"

GenericFields(t, cl, rdl) == <<Tok("type", <<t>>), Tok("class", <<cl>>), Tok("rdlength", <<rdl>>)>>

\* dns_rdata_print up to its return or to its call of a name decoder (*len is rdlength)
dns_rdata_print ==
    /\ pc = "rdata"
    /\ LET rclass == U16At(rr + 2)
           type == U16At(rr)
           rdl == U16At(rr + 8)
           size == IF type = type_A THEN SizeofInAddr ELSE SizeofIn6Addr
           e == addr_parse_err(rdlength, rdl, size)
           adv == data_advance(r, rdlength, rdl)
       IN  IF rclass = class_IN /\ type \in {type_A, type_AAAA}
           THEN /\ err' = e
                /\ pc' = "rrdone"
                /\ IF e = "ok"
                   THEN /\ r' = r + size
                        /\ rdlength' = rdlength - size
                        /\ out' = Append(out, Tok(IF type = type_A THEN "a" ELSE "aaaa",
                                                  Bytes(r, size)))
                        /\ rdmax' = Max(rdmax, r + size - 1)
                   ELSE UNCHANGED <<r, rdlength, out, rdmax>>
                /\ UNCHANGED <<rdname, name, f>>
           ELSE IF rclass = class_IN /\ type \in NameTypes
           THEN /\ NameCall(type = type_MX, "rdlength", "rdname", "rdname", rdlength, <<>>)
                /\ UNCHANGED <<r, rdlength, out, rdmax>>
           ELSE IF rclass = class_IN /\ type = type_TXT
           THEN /\ out' = Append(out, Tok("txt", <<>>))
                /\ err' = "ok"
                /\ pc' = "rrdone"
                /\ UNCHANGED <<r, rdlength, rdmax, rdname, name, f>>
           ELSE /\ err' = adv.err
                /\ r' = adv.data
                /\ rdlength' = adv.len
                /\ out' = IF adv.err = "ok" THEN out \o GenericFields(type, rclass, rdl)
                          ELSE out
                /\ pc' = "rrdone"
                /\ UNCHANGED <<rdmax, rdname, name, f>>
    /\ UNCHANGED <<input, len, rr, qdcount, count, section, comma>>

\* dns_rdata_print after its name decoder returned: the field and the rest of the payload
RdataName ==
    /\ pc = "rdname"
    /\ LET adv == data_advance(r, rdlength, rdlength - 1)
       IN  IF err # "ok"
           THEN UNCHANGED <<r, rdlength, err, out>>
           ELSE /\ out' = Append(out, Tok(TypeName(U16At(rr)), CStr(rdname, pad, 1)))
                /\ IF rdlength - 1 > 0
                   THEN r' = adv.data /\ rdlength' = adv.len /\ err' = adv.err
                   ELSE UNCHANGED <<r, rdlength, err>>
    /\ pc' = "rrdone"
    /\ UNCHANGED <<input, len, rr, qdcount, count, section, comma, name, rdname, f, rdmax>>

\* a driver that marks the failing record and goes on with the next one
RecordEnd_SkipToNext ==
    /\ pc = "rrdone"
    /\ IF err # "ok"
       THEN /\ out' = out \o <<Malformed(len), Tok("}", <<>>)>>
            /\ UNCHANGED <<r, len, rdlength, rdmax>>
       ELSE /\ len' = len - rdlength
            /\ r' = IF rdlength > 1 THEN r + (rdlength - 1) ELSE r
            /\ rdlength' = IF rdlength > 1 THEN 1 ELSE rdlength
            /\ out' = out \o <<Tok("ttl", Bytes(rr + 4, 4)), Tok("}", <<>>)>>
            /\ rdmax' = Max(rdmax, rr + 7)
    /\ pc' = "rrloop"
    /\ UNCHANGED <<input, rr, qdcount, count, section, comma, err, name, rdname, f>>

\* dns_print_packet after dns_rdata_print: the malformed exit, or the ttl and the cursor
RecordEnd ==
    /\ pc = "rrdone"
    /\ IF err # "ok"
       THEN /\ out' = out \o <<Malformed(len), Tok("}", <<>>), Tok("]", <<>>), Tok("}", <<>>)>>
            /\ pc' = "done"
            /\ UNCHANGED <<r, len, rdlength, rdmax>>
       ELSE /\ len' = len - rdlength
            /\ r' = IF rdlength > 1 THEN r + (rdlength - 1) ELSE r
            /\ rdlength' = IF rdlength > 1 THEN 1 ELSE rdlength
            /\ out' = out \o <<Tok("ttl", Bytes(rr + 4, 4)), Tok("}", <<>>)>>
            /\ rdmax' = Max(rdmax, rr + 7)
            /\ pc' = "rrloop"
    /\ UNCHANGED <<input, rr, qdcount, count, section, comma, err, name, rdname, f>>

(***************************************************************************)
(* The inputs: messages built the way RFC 1035 lays them out, and byte     *)
(* strings that are no names at all, each handed over whole or cut short.  *)
(***************************************************************************)
FuzzLen == 3

MaxCut == 1

U16(n) == <<n \div 256, n % 256>>

Hdr(flags, qd, an, ns, ar) == <<0, 0>> \o U16(flags) \o U16(qd) \o U16(an) \o U16(ns) \o U16(ar)

Lbl(s) == <<Len(s)>> \o s

Ptr(o) == <<192 + o \div 256, o % 256>>

RRHdr(t, cl, rdl) == U16(t) \o U16(cl) \o <<0, 0, 0, 7>> \o U16(rdl)

QFields == <<0, 1, 0, 1>>

RECURSIVE Flat(_)
Flat(ss) == IF ss = <<>> THEN <<>> ELSE Head(ss) \o Flat(Tail(ss))

SeqsUpTo(S, n) == UNION {[1..k -> S] : k \in 0..n}

Take(s, n) == [i \in 1..n |-> IF i <= Len(s) THEN s[i] ELSE 0]

\* the bytes tried where a name is expected: a terminator, a length, a printable
\* byte with tag 01, an offset tag, an offset back to the place itself, and 0xff
NameBytes(self) == {0, 1, 65, 192, 255, self}

\* a question whose name is any byte string of up to n bytes
FuzzQuestionsOf(n) ==
    {Hdr(256, 1, 0, 0, 0) \o s \o QFields : s \in SeqsUpTo(NameBytes(12), n)}

FuzzQuestions == FuzzQuestionsOf(FuzzLen)

\* an MX answer whose payload is any byte string of up to n bytes
FuzzMxOf(n) ==
    {Hdr(33152, 0, 1, 0, 0) \o <<0>> \o RRHdr(type_MX, class_IN, Len(s)) \o s :
        s \in SeqsUpTo(NameBytes(23), n)}

FuzzMx == FuzzMxOf(FuzzLen)

\* messages too short to hold a header
ShortMessages == {SubSeq(Hdr(256, 1, 0, 0, 0), 1, n) : n \in 0..11}

\* www.example.com
WwwExampleCom ==
    Flat(<<Lbl(<<119, 119, 119>>), Lbl(<<101, 120, 97, 109, 112, 108, 101>>),
           Lbl(<<99, 111, 109>>), <<0>>>>)

\* k offsets in a row from offset o on, each to the two bytes after it
RECURSIVE Chain(_, _)
Chain(k, o) == IF k = 0 THEN <<>> ELSE Ptr(o + 2) \o Chain(k - 1, o + 2)

Messages ==
    { Hdr(256, 1, 0, 0, 0) \o WwwExampleCom \o QFields,
      Hdr(256, 1, 0, 0, 0) \o Lbl(<<97, 1, 98>>) \o <<0>> \o QFields,
      Hdr(256, 1, 0, 0, 0) \o Chain(20, 12) \o Lbl(<<97>>) \o <<0>> \o QFields,
      Hdr(256, 1, 0, 0, 0) \o Chain(21, 12) \o Lbl(<<97>>) \o <<0>> \o QFields,
      Hdr(256, 1, 0, 0, 0) \o Lbl(Rep(97, 63)) \o <<0>> \o QFields,
      Hdr(256, 1, 0, 0, 0) \o <<64>> \o Rep(97, 64) \o <<0>> \o QFields,
      Hdr(256, 1, 0, 0, 0) \o Lbl(Rep(97, 63)) \o <<64>> \o Rep(97, 64) \o <<0>> \o QFields,
      Hdr(256, 1, 0, 0, 0) \o Lbl(Rep(97, 62)) \o Ptr(12) \o QFields,
      Hdr(256, 1, 0, 0, 0) \o Lbl(Rep(97, 63)) \o Lbl(Rep(98, 63)) \o Lbl(Rep(99, 63))
          \o Lbl(Rep(100, 61)) \o <<0>> \o QFields,
      Hdr(256, 1, 0, 0, 0) \o Lbl(Rep(97, 63)) \o Lbl(Rep(98, 63)) \o Lbl(Rep(99, 63))
          \o Lbl(Rep(100, 62)) \o <<0>> \o QFields,
      Hdr(256, 2, 0, 0, 0) \o <<0>> \o QFields \o <<0>> \o QFields,
      Hdr(33152, 1, 3, 1, 1) \o WwwExampleCom \o QFields
          \o Ptr(12) \o RRHdr(type_CNAME, class_IN, 4) \o Lbl(<<97>>) \o Ptr(16)
          \o Ptr(12) \o RRHdr(type_A, class_IN, 6) \o <<10, 0, 0, 1, 0, 0>>
          \o Ptr(12) \o RRHdr(type_A, class_IN, 4) \o <<10, 0, 0, 2>>
          \o Ptr(16) \o RRHdr(type_NS, class_IN, 5) \o Lbl(<<110, 115>>) \o Ptr(16)
          \o Ptr(12) \o RRHdr(type_AAAA, class_IN, 16) \o Rep(1, 16),
      Hdr(33152, 1, 1, 1, 1) \o WwwExampleCom \o QFields
          \o Ptr(12) \o RRHdr(type_CNAME, class_IN, 4) \o Lbl(<<97>>) \o Ptr(16)
          \o Ptr(16) \o RRHdr(type_SOA, class_IN, 8) \o Lbl(<<110, 115>>) \o <<0, 0, 0, 0, 9>>
          \o Ptr(12) \o RRHdr(type_AAAA, class_IN, 16) \o Rep(1, 16) }

\* what a record's payload starts with: nothing but zeros, a name ending in a zero
\* label, an offset, and the same two after an MX preference
Payloads == {<<>>, <<1, 97, 0>>, Ptr(0), <<0, 5, 1, 97, 0>>, <<0, 5>> \o Ptr(0)}

Kinds == {<<type_A, class_IN>>, <<type_AAAA, class_IN>>, <<type_CNAME, class_IN>>,
          <<type_PTR, class_IN>>, <<type_MX, class_IN>>, <<type_TXT, class_IN>>,
          <<99, class_IN>>, <<type_A, 3>>}

RdLengths == {0, 1, 2, 3, 4, 6, 16, 17}

\* an answer of every kind and declared length, then an A record in the next section
FuzzRecords ==
    {Hdr(33152, 0, 1, 1, 0) \o nm \o RRHdr(k[1], k[2], n) \o Take(p, n)
         \o Ptr(0) \o RRHdr(type_A, class_IN, 4) \o <<10, 0, 0, 1>> :
        nm \in {<<0>>, Ptr(0)}, k \in Kinds, n \in RdLengths, p \in Payloads}

\* answers of type MX to the question www.example.com (its name at offset 12,
\* example.com at offset 16): mail exchanges given as an offset alone, as the label
\* a and an offset, and as labels alone after a preference of 0x4000
MxMessages ==
    { Hdr(33152, 1, 1, 0, 0) \o WwwExampleCom \o QFields
          \o Ptr(12) \o RRHdr(type_MX, class_IN, 4) \o <<0, 10>> \o Ptr(12),
      Hdr(33152, 1, 1, 0, 0) \o WwwExampleCom \o QFields
          \o Ptr(12) \o RRHdr(type_MX, class_IN, 6) \o <<0, 10>> \o Lbl(<<97>>) \o Ptr(16),
      Hdr(33152, 1, 1, 0, 0) \o WwwExampleCom \o QFields
          \o Ptr(12) \o RRHdr(type_MX, class_IN, 5) \o <<64, 0>> \o Lbl(<<97>>) \o <<0>> }

Inputs ==
    FuzzQuestions \cup FuzzMx \cup ShortMessages \cup Messages \cup FuzzRecords
        \cup MxMessages

\* the inputs of the runs that are followed to their end
FairInputs ==
    FuzzQuestionsOf(FuzzLen - 1) \cup FuzzMxOf(FuzzLen - 1) \cup Messages \cup MxMessages

PadBytes == {0, 65, 192}

Init ==
    /\ mem \in Inputs
    /\ pkt_len \in {l \in {Len(mem) - k : k \in 0..MaxCut} : l >= 0}
    /\ pad \in PadBytes
    /\ char_signed \in BOOLEAN
    /\ pc = "start"
    /\ r = 0
    /\ len = 0
    /\ rdlength = 0
    /\ rr = 0
    /\ qdcount = 0
    /\ count = 0
    /\ section = 0
    /\ comma = 0
    /\ err = "ok"
    /\ out = <<>>
    /\ name = <<>>
    /\ rdname = <<>>
    /\ f = NoFrame
    /\ rdmax = -1

Next ==
    \/ Start
    \/ Question
    \/ dns_question_parse
    \/ RecordLoop
    \/ dns_rr_parse
    \/ dns_rdata_print
    \/ RdataName
    \/ RecordEnd
    \/ dns_header_parse_name
    \/ dns_header_parse_mxname

Spec == Init /\ [][Next]_vars

FairInit == Init /\ mem \in FairInputs /\ pkt_len = Len(mem) /\ pad = 0

\* dns_print_packet runs on until it returns
FairSpec == FairInit /\ [][Next]_vars /\ WF_vars(Next)

(***************************************************************************)
(* The claims.                                                             *)
(***************************************************************************)
ReturnPcs == {"qname", "rrname", "rdname"}

\* C1: every byte of the message that dns_print_packet and its parsers read lies at
\* an offset o with 0 <= o < pkt_len.
C1_ReadsInBounds == rdmax < pkt_len

\* the brackets opened and not yet closed after the fragments ts, innermost first;
\* <<"bad">> when a bracket is closed that is not the innermost open one
RECURSIVE Open(_, _)
Open(ts, st) ==
    IF ts = <<>> THEN st
    ELSE LET k == Head(ts).k
         IN  IF k \in {"{", "["} THEN Open(Tail(ts), <<k>> \o st)
             ELSE IF k \in {"}", "]"}
             THEN IF st # <<>> /\ Head(st) = (IF k = "}" THEN "{" ELSE "[")
                  THEN Open(Tail(ts), Tail(st))
                  ELSE <<"bad">>
             ELSE Open(Tail(ts), st)

\* C2: for every input the text dns_print_packet has appended when it returns is well
\* formed: every { and [ it opened is closed, in matching order.
C2_WellFormedOutput == pc = "done" => Open(out, <<>>) = <<>>

InDecoder == pc \in {"name", "mxname"}

\* C3: decoding a name (dns_header_parse_name and dns_header_parse_mxname) always
\* terminates and follows at most 20 offsets, whatever the offsets point to; every
\* iteration of the loop either returns (or ends in the recursive call's return) or
\* strictly decreases the remaining length.
C3_NameDecodingTerminates ==
    /\ [](f.depth <= DNS_MAX_RECURSION_DEPTH)
    /\ [][(InDecoder /\ InDecoder' /\ f'.depth = f.depth) => CurLen' < CurLen]_vars
    /\ (InDecoder ~> ~InDecoder)

\* a decode that followed an offset 20 times, met one more and gave up
C3_Witness ==
    /\ pc \in ReturnPcs
    /\ f.depth = DNS_MAX_RECURSION_DEPTH
    /\ char_is_offset(Byte(f.c))
    /\ err = "offset_too_long"

MarkerAt(i) == out[i].k = "malformed"

\* C4: the driver is fail-fast: once it detects a failure (a header shorter than 12
\* bytes, qdcount > 1, a question error, an error in a record) it emits the malformed
\* marker and stops: nothing of the failing question or record was emitted before the
\* marker, and after it come no question field, no record fields and no ttl; a short
\* header or qdcount > 1 yields the marker with no question field and no "rr" array.
C4_FailFast ==
    /\ \A i \in 1..Len(out) :
          MarkerAt(i) =>
            /\ i > 1 /\ out[i - 1].k = "{"
            /\ \A j \in (i + 1)..Len(out) : out[j].k \in {"}", "]"}
            /\ pc = "done"
    /\ (pc = "done" /\ err # "ok") => \E i \in 1..Len(out) : MarkerAt(i)
    /\ (pc = "done" /\ (pkt_len < SizeofDnsHdr \/ U16At(4) > 1)) =>
          /\ Len(out) = 2
          /\ MarkerAt(2)

\* the second answer failed while a well-formed answer and two more sections follow
C4_Witness ==
    /\ pc = "done"
    /\ err = "bad_rdlength"
    /\ section = 1 /\ comma = 2 /\ count > 0
    /\ out[2].k = "rn"
    /\ \E i \in 5..Len(out) : MarkerAt(i) /\ out[i - 4].k = "ttl"

\* C5: name decoding never writes outside the output capacity it was given: every
\* byte written to the output name lies within the 255 bytes (cells 0..254 of the
\* 256-byte buffer) passed to the outermost call.
C5_WritesWithinCapacity ==
    /\ Len(name) <= DNS_OUTNAME_LEN - 1
    /\ Len(rdname) <= DNS_OUTNAME_LEN - 1

\* a decode by dns_header_parse_name that has just returned to its caller
NameReturned == pc \in ReturnPcs /\ ~f.mx

\* the end of the bytes the outermost call was given
NameEnd == f.start + f.startlen

\* RFC 1035 section 4.1.4, read off the message alone: the number of offsets that
\* have to be followed from o (k followed so far) to reach the zero label of a name
\* whose labels, offsets and zero label all lie before end and whose text stays
\* within room characters; 21 as soon as a 21st offset is met; -1 for anything else
RECURSIVE JumpsNeeded(_, _, _, _)
JumpsNeeded(o, end, k, room) ==
    IF o < 0 \/ o >= end THEN -1
    ELSE LET b == Byte(o)
         IN  IF b = 0 THEN k
             ELSE IF b <= 63
             THEN IF o + b < end /\ room >= b + 1
                  THEN JumpsNeeded(o + b + 1, end, k, room - (b + 1))
                  ELSE -1
             ELSE IF b >= 192
             THEN IF o + 1 >= end THEN -1
                  ELSE IF k = 20 THEN 21
                  ELSE JumpsNeeded((b - 192) * 256 + Byte(o + 1), end, k + 1, room)
             ELSE -1

\* C6: a name reached through exactly 20 offsets decodes successfully when the name
\* is well formed and in bounds (and leaves room in the output for the recursive
\* calls: at most 253 characters), and a name that needs a 21st offset fails with
\* offset_too_long.
C6_TwentyJumps ==
    NameReturned =>
        LET j == JumpsNeeded(f.start, NameEnd, 0, DNS_OUTNAME_LEN - 3)
        IN  /\ j = 20 => err = "ok"
            /\ j = 21 => err = "offset_too_long"

\* a name behind exactly 20 offsets has been decoded
C6_Witness ==
    /\ NameReturned
    /\ JumpsNeeded(f.start, NameEnd, 0, DNS_OUTNAME_LEN - 3) = 20
    /\ f.depth = 20
    /\ err = "ok"
    /\ CStr(name, 0, 0) = <<46, 97>>

\* an iteration of the loop of dns_header_parse_name that examines the byte at c
LoopExamines == pc = "name" /\ CurLen > 0 /\ f.outname < f.terminus

\* the iteration copies a label of 63 bytes and stays in the loop
Accepts63 ==
    /\ pc' = "name"
    /\ err' = err
    /\ f'.c = f.c + 64
    /\ f'.outname = f.outname + 64
    /\ CurLen' = CurLen - 64

C8_BadRdlength ==
    (pc = "rrdone" /\ U16At(rr + 2) = class_IN /\ U16At(rr) \in {type_A, type_AAAA}) =>
        LET size == IF U16At(rr) = type_A THEN 4 ELSE 16
        IN  IF U16At(rr + 8) = size
            THEN err = "ok" /\ out[Len(out)].k \in {"a", "aaaa"}
            ELSE err = "bad_rdlength"

\* what a byte of a label is decoded to: itself when it is printable ASCII, else '*'
Star(b) == IF b \in 32..126 THEN b ELSE 42

\* the text of the uncompressed name at o: '.' and the bytes of each label up to the
\* zero label; <<-1>> when the bytes before end are no such name
RECURSIVE Expected(_, _)
Expected(o, end) ==
    IF o >= end THEN <<-1>>
    ELSE LET b == Byte(o)
         IN  IF b = 0 THEN <<>>
             ELSE IF b <= 63 /\ o + b < end
             THEN LET rest == Expected(o + b + 1, end)
                  IN  IF rest = <<-1>> THEN rest
                      ELSE <<46>> \o [i \in 1..b |-> Star(Byte(o + i))] \o rest
             ELSE <<-1>>

\* the name just decoded is uncompressed and well formed, and fits with its
\* terminator in the 255 bytes of output
Uncompressed ==
    /\ NameReturned
    /\ Expected(f.start, NameEnd) # <<-1>>
    /\ Len(Expected(f.start, NameEnd)) + 1 <= DNS_OUTNAME_LEN - 1

DropFirst(s) == IF s = <<>> THEN s ELSE Tail(s)

\* C9: decoding an uncompressed, zero-terminated name of labels of 1..63 bytes that
\* fits in the output yields exactly '.' followed by each label's bytes, in order,
\* with every non-printable byte replaced by '*', and the empty string for a name
\* with no labels; the emitted field is this string without its first character.
C9_DecodedName ==
    /\ [](Uncompressed =>
            /\ err = "ok"
            /\ CStr(BufOf(f), BgOf(f), 0) = Expected(f.start, NameEnd))
    /\ [][(Uncompressed /\ Len(out') > Len(out) /\ out'[Len(out')].k # "malformed") =>
            /\ out' = Append(out, out'[Len(out')])
            /\ out'[Len(out')].k \in {"qn", "rn", "soa", "ptr", "ns", "cname"}
            /\ out'[Len(out')].v = DropFirst(Expected(f.start, NameEnd))]_vars

\* the name a, 0x01, b was decoded and emitted as a*b
C9_Witness ==
    /\ pc = "question"
    /\ Expected(f.start, NameEnd) = <<46, 97, 42, 98>>
    /\ Byte(f.start + 2) = 1
    /\ CStr(name, 0, 0) = <<46, 97, 42, 98>>
    /\ out[Len(out)] = Tok("qn", <<97, 42, 98>>)

\* C10: after every resource record processed successfully, whatever its class and
\* type, the driver's cursor is exactly at payload start + declared rdlength.
C10_CursorAtRecordEnd ==
    (pc = "rrloop" /\ comma > 0) => r = rr + SizeofDnsRr + U16At(rr + 8)

\* a decode by dns_header_parse_mxname that has just returned to dns_rdata_print
MxReturned == pc = "rdname" /\ f.mx /\ f.startlen >= 2

\* where the mail exchange's name starts: after the 2-byte preference
MxName == f.start + 2

\* the offset an RFC 1035 pointer at o points to
Target(o) == (Byte(o) % 64) * 256 + Byte(o + 1)

\* RFC 1035 section 4.1.4, read off the message alone: the text of the name at o,
\* its labels and the labels behind its offsets (k followed so far, at most 20);
\* <<-1>> when the bytes before end are no such name
RECURSIVE Decoded(_, _, _)
Decoded(o, end, k) ==
    IF o < 0 \/ o >= end THEN <<-1>>
    ELSE LET b == Byte(o)
         IN  IF b = 0 THEN <<>>
             ELSE IF b <= 63 /\ o + b < end
             THEN LET rest == Decoded(o + b + 1, end, k)
                  IN  IF rest = <<-1>> THEN rest
                      ELSE <<46>> \o [i \in 1..b |-> Star(Byte(o + i))] \o rest
             ELSE IF b >= 192 /\ o + 1 < end /\ k < 20
             THEN Decoded(Target(o), end, k + 1)
             ELSE <<-1>>

\* the mail exchange is an uncompressed name, or an offset alone to such a name
PlainOrPointer ==
    \/ Expected(MxName, NameEnd) # <<-1>>
    \/ /\ Byte(MxName) >= 192
       /\ MxName + 1 < NameEnd
       /\ Expected(Target(MxName), NameEnd) # <<-1>>

\* C11: the MX decoder skips the 2-byte preference before it classifies any byte as
\* label or offset, for every preference value: a payload of a preference and a
\* well-formed name decodes to that name, and a preference followed immediately by
\* an offset decodes to the name at the offset's target.
C11_PreferenceSkippedFirst ==
    (MxReturned /\ PlainOrPointer /\ Len(Decoded(MxName, NameEnd, 0)) <= DNS_OUTNAME_LEN - 3) =>
        /\ err = "ok"
        /\ CStr(rdname, pad, 0) = Decoded(MxName, NameEnd, 0)

\* the offset of the first byte after the well-formed labels that start at o;
\* -1 when a label runs past end
RECURSIVE InlineEnd(_, _)
InlineEnd(o, end) ==
    IF o >= end THEN -1
    ELSE IF Byte(o) \in 1..63
    THEN IF o + Byte(o) < end THEN InlineEnd(o + Byte(o) + 1, end) ELSE -1
    ELSE o

\* the mail exchange is one or more inline labels followed by an offset to an
\* uncompressed name
LabelsThenPointer ==
    LET p == InlineEnd(MxName, NameEnd)
    IN  /\ Byte(MxName) \in 1..63
        /\ p >= 0
        /\ Byte(p) >= 192
        /\ p + 1 < NameEnd
        /\ Expected(Target(p), NameEnd) # <<-1>>

\* C12: the MX preference skip is applied at most once per MX name: when the name has
\* inline labels followed by an offset, decoding continues at the offset's target
\* without skipping any bytes there, and the result is the inline labels followed by
\* exactly the labels the plain decoder produces from the target.
C12_PreferenceSkippedOnce ==
    (MxReturned /\ LabelsThenPointer
        /\ Len(Decoded(MxName, NameEnd, 0)) <= DNS_OUTNAME_LEN - 3) =>
        /\ err = "ok"
        /\ CStr(rdname, pad, 0) =
              Expected(MxName, InlineEnd(MxName, NameEnd) + 1)
                  \o Expected(Target(InlineEnd(MxName, NameEnd)), NameEnd)

\* C13: dns_rr_parse fails with rdata_too_long whenever the declared rdlength exceeds
\* the bytes of the message that remain once the type, class, ttl and rdlength
\* fields have been read: after a successful header parse (the cursor is at the
\* payload start) the whole payload region lies inside the message.
C13_PayloadInsideMessage ==
    pc = "rdata" => r + U16At(rr + 8) <= pkt_len

\* where dns_print_packet begins a question or a record, or has just completed a
\* name, header or payload step successfully
AtStepBoundary ==
    \/ pc \in {"question", "rrloop", "rdata"}
    \/ pc \in {"qname", "rrname"} /\ err = "ok"

\* C14: the driver's cursor bookkeeping stays exact: whenever dns_print_packet begins
\* parsing a question or a record, and after every successful name, header and
\* payload step, the remaining length is non-negative and equals the message length
\* minus the cursor's offset from the start of the message.
C14_LengthMatchesCursor ==
    AtStepBoundary => (len >= 0 /\ len = pkt_len - r)

====
